---- MODULE Spec2Model ----
(***************************************************************************)
(* Model of readcolordata (src/zplload.c): the decoder of the palette      *)
(* section of a quest file.  One call is modelled read by read: every      *)
(* stream read is a step that either succeeds or hits the end of the       *)
(* stream, and the code between two reads belongs to the step that runs    *)
(* it.  Color records and palette names are copied whole by the code       *)
(* (48 and PALNAMESIZE bytes at aligned offsets), so a record or a name is *)
(* one cell of the model; the cycle table is modelled byte by byte.        *)
(***************************************************************************)
EXTENDS Integers, Sequences, FiniteSets

VARIABLES version, build, keepdata, dirty,
          pc, result, s_version, palcycles, i, fld, j, reads,
          colordata, palnames, Misc, temp_misc, namesReset, lastCyc, lastName

vars == <<version, build, keepdata, dirty, pc, result, s_version, palcycles,
          i, fld, j, reads, colordata, palnames, Misc, temp_misc, namesReset,
          lastCyc, lastName>>

(***************************************************************************)
(* Thresholds and sizes written as literals in readcolordata.              *)
(***************************************************************************)
VersionThreshold == 402     \* 0x192
SpriteBuild == 73
NamesBuild == 76
NewestSubVersion == 4
NamesSubVersion == 3
RecBytes == 48
CycleSlots == 3

\* 30*16*3 bytes: the sprite block the relocations move, in records.
SpriteRecs == (30 * 16 * 3) \div RecBytes

(***************************************************************************)
(* Table layout.  The header that fixes the layout is not part of src/;    *)
(* the tables are scaled down here, keeping the order of the real layout:  *)
(* oldpoSPRITE < oldpdTOTAL <= newpoSPRITE < newpdTOTAL <= newerpoSPRITE   *)
(* < newerpdTOTAL, each total being its sprite offset plus the sprite      *)
(* block, and OLDMAXLEVELS < MAXLEVELS = 512, 256 cycle rows.              *)
(***************************************************************************)
LevelRecs == 2        \* records in front of the sprite block, oldest layout
GapNew == 1           \* level records added by the extended layout
GapNewer == 1         \* level records added by the newest layout
OldLevels == 2        \* palette names stored by sub-versions below 3
NewLevels == 4        \* palette names stored from sub-version 3 on (512)
CycleRows == 3        \* rows of the cycle table (256)

oldpoSPRITE == LevelRecs
oldpdTOTAL == oldpoSPRITE + SpriteRecs
newpoSPRITE == oldpdTOTAL + GapNew
newpdTOTAL == newpoSPRITE + SpriteRecs
newerpoSPRITE == newpdTOTAL + GapNewer
newerpdTOTAL == newerpoSPRITE + SpriteRecs
OLDMAXLEVELS == OldLevels
MAXLEVELS == NewLevels

\* The inputs a call is tried on: around every threshold.
Versions == {VersionThreshold - 1, VersionThreshold, VersionThreshold + 1}
Builds == {SpriteBuild - 1, SpriteBuild, NamesBuild - 1, NamesBuild}
SubVersions == {NamesSubVersion - 1, NamesSubVersion, NewestSubVersion}
\* Cycle counts a stream may declare (a 16-bit word): up to one row too many.
CycleCounts == 0 .. (CycleRows + 1)

(***************************************************************************)
(* Content.  The p-th successful read of a call (from 0) delivers          *)
(* StreamVal(p), never zero and never a value the tables held before; the  *)
(* tables of the caller start zeroed or holding older data (records and    *)
(* names tagged from 1000 and 2000 on, cycle bytes 255).                   *)
(***************************************************************************)
StreamVal(p) == (p % 254) + 1

PriorColordata(d) == [k \in 0 .. newerpdTOTAL - 1 |-> IF d THEN 1000 + k ELSE 0]

PriorPalnames(d) == [k \in 0 .. MAXLEVELS - 1 |-> IF d THEN 2000 + k ELSE 0]

CycleEntry(f, c, s) == [first |-> f, count |-> c, speed |-> s]

FilledCycles(b) ==
    [r \in 0 .. CycleRows - 1 |-> [s \in 0 .. CycleSlots - 1 |-> CycleEntry(b, b, b)]]

PriorMisc(d) ==
    [cycles |-> FilledCycles(IF d THEN 255 ELSE 0), other |-> "caller"]

(***************************************************************************)
(* memcpy and memset on the flat color table, in records.  Source and      *)
(* destination of every memcpy of the code are disjoint in this layout.    *)
(***************************************************************************)
Recs(bytes) == bytes \div RecBytes

Memcpy(t, dst, src, n) ==
    [k \in DOMAIN t |-> IF k >= dst /\ k < dst + n THEN t[src + (k - dst)] ELSE t[k]]

Memset0(t, dst, n) ==
    [k \in DOMAIN t |-> IF k >= dst /\ k < dst + n THEN 0 ELSE t[k]]

\* The relocation of lines 73-78 with the three one-slot copies in ascending
\* order: each copy then reads the slot the copy before it overwrote.
LegacyRelocateAscending(t) ==
    LET a == Memcpy(t, newerpoSPRITE, oldpoSPRITE, Recs(30 * 16 * 3))
        b == Memset0(a, oldpoSPRITE, newerpoSPRITE - oldpoSPRITE)
        c == Memcpy(b, newerpoSPRITE + 9, newerpoSPRITE + 8, Recs(48))
        d == Memcpy(c, newerpoSPRITE + 10, newerpoSPRITE + 9, Recs(48))
        e == Memcpy(d, newerpoSPRITE + 11, newerpoSPRITE + 10, Recs(48))
    IN  Memset0(e, newerpoSPRITE + 8, Recs(48))

\* Lines 73-78: the relocation of a stream that predates the extended layout.
LegacyRelocate(t) ==
    LET a == Memcpy(t, newerpoSPRITE, oldpoSPRITE, Recs(30 * 16 * 3))
        b == Memset0(a, oldpoSPRITE, newerpoSPRITE - oldpoSPRITE)
        c == Memcpy(b, newerpoSPRITE + 11, newerpoSPRITE + 10, Recs(48))
        d == Memcpy(c, newerpoSPRITE + 10, newerpoSPRITE + 9, Recs(48))
        e == Memcpy(d, newerpoSPRITE + 9, newerpoSPRITE + 8, Recs(48))
    IN  Memset0(e, newerpoSPRITE + 8, Recs(48))

\* The relocation of lines 102-103 with a memset one record short.
ExtendedRelocateShort(t) ==
    LET a == Memcpy(t, newerpoSPRITE, newpoSPRITE, Recs(30 * 16 * 3))
    IN  Memset0(a, newpoSPRITE, newerpoSPRITE - newpoSPRITE - 1)

\* Lines 102-103: the relocation of an extended stream of sub-version < 4.
ExtendedRelocate(t) ==
    LET a == Memcpy(t, newerpoSPRITE, newpoSPRITE, Recs(30 * 16 * 3))
    IN  Memset0(a, newpoSPRITE, newerpoSPRITE - newpoSPRITE)

\* init_palnames(): the reset of the whole name table to empty names.
InitPalnames == [k \in 0 .. MAXLEVELS - 1 |-> 0]

(***************************************************************************)
(* The branch conditions.                                                  *)
(***************************************************************************)
HasHeader(v) == v > VersionThreshold

\* Line 69 with build <= 73 for build < 73.
LegacyColorsOffByOne(v, b) ==
    (v < VersionThreshold) \/ (v = VersionThreshold /\ b <= SpriteBuild)

LegacyColors(v, b) == (v < VersionThreshold) \/ (v = VersionThreshold /\ b < SpriteBuild)

\* Line 123 with build <= 76 for build < 76.
LegacyNamesOffByOne(v, b) ==
    (v < VersionThreshold) \/ (v = VersionThreshold /\ b <= NamesBuild)

LegacyNames(v, b) == (v < VersionThreshold) \/ (v = VersionThreshold /\ b < NamesBuild)

HasNewest(sv) == ~(sv < NewestSubVersion)

\* Line 134 with s_version <= 3 for s_version < 3.
PalNamesToReadOffByOne(sv) == IF sv <= NamesSubVersion THEN OLDMAXLEVELS ELSE NewLevels

PalNamesToRead(sv) == IF sv < NamesSubVersion THEN OLDMAXLEVELS ELSE NewLevels

HasCycles(v) == v > VersionThreshold

\* A call that skips the section header whatever the version.
EntryPcNoHeader(v) == "base"

EntryPc(v) == IF HasHeader(v) THEN "hdr_sver" ELSE "base"

\* A store into the caller's color table that ignores keepdata.
StoreRecordAlways(t, k, val, keep) == [t EXCEPT ![k] = val]

\* A store into the caller's color table happens only when keepdata is set.
StoreRecord(t, k, val, keep) == IF keep THEN [t EXCEPT ![k] = val] ELSE t

\* A store into palnames[k]; the table has MAXLEVELS rows.
StoreName(t, k, val, keep) ==
    IF keep /\ k \in DOMAIN t THEN [t EXCEPT ![k] = val] ELSE t

\* Lines 156-159: zero-fill of the names from the read count up to MAXLEVELS.
ZeroFillNames(t, from) ==
    [k \in DOMAIN t |-> IF k >= from /\ k < MAXLEVELS THEN 0 ELSE t[k]]

\* A record-major reading of the wire: first, count, speed of slot 0, then of
\* slot 1, then of slot 2.
StoreCycleByteRecordMajor(c, r, f, s, val) ==
    IF s = 0 THEN [c EXCEPT ![r][f].first = val]
    ELSE IF s = 1 THEN [c EXCEPT ![r][f].count = val]
    ELSE [c EXCEPT ![r][f].speed = val]

\* The field-major wire order of one cycle row: first, count, speed.
StoreCycleByte(c, r, f, s, val) ==
    IF f = 0 THEN [c EXCEPT ![r][s].first = val]
    ELSE IF f = 1 THEN [c EXCEPT ![r][s].count = val]
    ELSE [c EXCEPT ![r][s].speed = val]

(***************************************************************************)
(* Init: the state at the entry of a call, after line 24 copied *Misc      *)
(* into temp_misc.                                                         *)
(***************************************************************************)
Init ==
    /\ version \in Versions
    /\ build \in Builds
    /\ keepdata \in BOOLEAN
    /\ dirty \in BOOLEAN
    /\ pc = EntryPc(version)
    /\ result = "none"
    /\ s_version = 0
    /\ palcycles = 0
    /\ i = 0
    /\ fld = 0
    /\ j = 0
    /\ reads = << >>
    /\ colordata = PriorColordata(dirty)
    /\ palnames = PriorPalnames(dirty)
    /\ Misc = PriorMisc(dirty)
    /\ temp_misc = PriorMisc(dirty)
    /\ namesReset = FALSE
    /\ lastCyc = -1
    /\ lastName = -1

inputs == <<version, build, keepdata, dirty>>

ReadPcs == {"hdr_sver", "hdr_dummy", "hdr_len", "base", "ext", "newest",
            "names", "palcycles", "cyc"}

\* Every `return qe_invalid`: the read the call is at fails.
ReadFails ==
    /\ pc \in ReadPcs
    /\ pc' = "done"
    /\ result' = "qe_invalid"
    /\ UNCHANGED <<inputs, s_version, palcycles, i, fld, j, reads, colordata,
                   palnames, Misc, temp_misc, namesReset, lastCyc, lastName>>

\* Line 35: the 16-bit sub-version.
ReadSubVersion ==
    /\ pc = "hdr_sver"
    /\ \E sv \in SubVersions : s_version' = sv
    /\ reads' = Append(reads, "sver")
    /\ pc' = "hdr_dummy"
    /\ UNCHANGED <<inputs, result, palcycles, i, fld, j, colordata, palnames,
                   Misc, temp_misc, namesReset, lastCyc, lastName>>

\* Line 41: the 16-bit word that is read and dropped.
ReadReserved ==
    /\ pc = "hdr_dummy"
    /\ reads' = Append(reads, "reserved")
    /\ pc' = "hdr_len"
    /\ UNCHANGED <<inputs, result, s_version, palcycles, i, fld, j, colordata,
                   palnames, Misc, temp_misc, namesReset, lastCyc, lastName>>

\* Line 47: the 32-bit section length, read and dropped.
ReadLength ==
    /\ pc = "hdr_len"
    /\ reads' = Append(reads, "len")
    /\ pc' = "base"
    /\ i' = 0
    /\ UNCHANGED <<inputs, result, s_version, palcycles, fld, j, colordata,
                   palnames, Misc, temp_misc, namesReset, lastCyc, lastName>>

\* Lines 54-67: one record of the base table.
ReadBaseColor ==
    /\ pc = "base"
    /\ i < oldpdTOTAL
    /\ reads' = Append(reads, "color")
    /\ colordata' = StoreRecord(colordata, i, StreamVal(Len(reads)), keepdata)
    /\ i' = i + 1
    /\ pc' = IF i + 1 < oldpdTOTAL THEN "base" ELSE "branch69"
    /\ UNCHANGED <<inputs, result, s_version, palcycles, fld, j, palnames,
                   Misc, temp_misc, namesReset, lastCyc, lastName>>

\* Lines 69-85: the legacy relocation, or the entry of the extended read.
ColorBranch ==
    /\ pc = "branch69"
    /\ IF LegacyColors(version, build)
       THEN /\ colordata' = IF keepdata THEN LegacyRelocate(colordata) ELSE colordata
            /\ pc' = "branch123"
       ELSE /\ colordata' = colordata
            /\ pc' = "ext"
    /\ i' = 0
    /\ UNCHANGED <<inputs, result, s_version, palcycles, fld, j, reads,
                   palnames, Misc, temp_misc, namesReset, lastCyc, lastName>>

\* Lines 85-96: one record of the extended slots.
ReadExtColor ==
    /\ pc = "ext"
    /\ i < newpdTOTAL - oldpdTOTAL
    /\ reads' = Append(reads, "color")
    /\ colordata' = StoreRecord(colordata, oldpdTOTAL + i, StreamVal(Len(reads)), keepdata)
    /\ i' = i + 1
    /\ pc' = IF i + 1 < newpdTOTAL - oldpdTOTAL THEN "ext" ELSE "branch98"
    /\ UNCHANGED <<inputs, result, s_version, palcycles, fld, j, palnames,
                   Misc, temp_misc, namesReset, lastCyc, lastName>>

\* Lines 98-108: the smaller relocation, or the entry of the newest read.
SubVersionBranch ==
    /\ pc = "branch98"
    /\ IF HasNewest(s_version)
       THEN /\ colordata' = colordata
            /\ pc' = "newest"
       ELSE /\ colordata' = IF keepdata THEN ExtendedRelocate(colordata) ELSE colordata
            /\ pc' = "branch123"
    /\ i' = 0
    /\ UNCHANGED <<inputs, result, s_version, palcycles, fld, j, reads,
                   palnames, Misc, temp_misc, namesReset, lastCyc, lastName>>

\* Lines 108-119: one record of the newest slots.
ReadNewestColor ==
    /\ pc = "newest"
    /\ i < newerpdTOTAL - newpdTOTAL
    /\ reads' = Append(reads, "color")
    /\ colordata' = StoreRecord(colordata, newpdTOTAL + i, StreamVal(Len(reads)), keepdata)
    /\ i' = i + 1
    /\ pc' = IF i + 1 < newerpdTOTAL - newpdTOTAL THEN "newest" ELSE "branch123"
    /\ UNCHANGED <<inputs, result, s_version, palcycles, fld, j, palnames,
                   Misc, temp_misc, namesReset, lastCyc, lastName>>

\* Lines 123-139: the reset of the names, or the entry of the name read.
NameBranch ==
    /\ pc = "branch123"
    /\ IF LegacyNames(version, build)
       THEN /\ palnames' = IF keepdata THEN InitPalnames ELSE palnames
            /\ namesReset' = keepdata
            /\ pc' = "branch163"
       ELSE /\ palnames' = palnames
            /\ namesReset' = namesReset
            /\ pc' = "names"
    /\ i' = 0
    /\ UNCHANGED <<inputs, result, s_version, palcycles, fld, j, reads,
                   colordata, Misc, temp_misc, lastCyc, lastName>>

\* Lines 139-152: one palette name.
ReadPalName ==
    /\ pc = "names"
    /\ i < PalNamesToRead(s_version)
    /\ reads' = Append(reads, "name")
    /\ palnames' = StoreName(palnames, i, StreamVal(Len(reads)), keepdata)
    /\ lastName' = IF keepdata THEN i ELSE lastName
    /\ i' = i + 1
    /\ pc' = IF i + 1 < PalNamesToRead(s_version) THEN "names" ELSE "zeronames"
    /\ UNCHANGED <<inputs, result, s_version, palcycles, fld, j, colordata,
                   Misc, temp_misc, namesReset, lastCyc>>

\* Lines 154-160: the names the stream does not hold.
ZeroNames ==
    /\ pc = "zeronames"
    /\ palnames' = IF keepdata
                   THEN ZeroFillNames(palnames, PalNamesToRead(s_version))
                   ELSE palnames
    /\ pc' = "branch163"
    /\ UNCHANGED <<inputs, result, s_version, palcycles, i, fld, j, reads,
                   colordata, Misc, temp_misc, namesReset, lastCyc, lastName>>

\* Lines 163-173 and 213: the working cycle table is zeroed, or the call
\* returns 0 when the format holds no cycles.
CycleBranch ==
    /\ pc = "branch163"
    /\ IF HasCycles(version)
       THEN /\ temp_misc' = [temp_misc EXCEPT !.cycles = FilledCycles(0)]
            /\ pc' = "palcycles"
            /\ result' = result
       ELSE /\ temp_misc' = temp_misc
            /\ pc' = "done"
            /\ result' = "ok"
    /\ UNCHANGED <<inputs, s_version, palcycles, i, fld, j, reads, colordata,
                   palnames, Misc, namesReset, lastCyc, lastName>>

\* Line 175: the 16-bit count of cycle rows.
ReadPalcycles ==
    /\ pc = "palcycles"
    /\ \E n \in CycleCounts :
          /\ palcycles' = n
          /\ pc' = IF 0 < n THEN "cyc" ELSE "commit"
    /\ reads' = Append(reads, "palcycles")
    /\ i' = 0
    /\ fld' = 0
    /\ j' = 0
    /\ UNCHANGED <<inputs, result, s_version, colordata, palnames, Misc,
                   temp_misc, namesReset, lastCyc, lastName>>

\* The loop position after the byte at (row r, field f, slot s).
NextCyclePos(r, f, s) ==
    IF s + 1 < CycleSlots THEN <<r, f, s + 1>>
    ELSE IF f + 1 < 3 THEN <<r, f + 1, 0>>
    ELSE <<r + 1, 0, 0>>

\* Lines 180-205: one byte of cycle row i.  Nothing bounds i by the size of
\* the table: a row past the table is a store outside temp_misc.cycles, which
\* lands in the members behind it or brings the call down.
ReadCycleByte ==
    /\ pc = "cyc"
    /\ i < palcycles
    /\ reads' = Append(reads, "cyc")
    /\ lastCyc' = i
    /\ LET nxt == NextCyclePos(i, fld, j)
       IN  /\ i' = nxt[1]
           /\ fld' = nxt[2]
           /\ j' = nxt[3]
           /\ IF i < CycleRows
              THEN /\ temp_misc' = [temp_misc EXCEPT !.cycles =
                          StoreCycleByte(temp_misc.cycles, i, fld, j, StreamVal(Len(reads)))]
                   /\ pc' = IF nxt[1] < palcycles THEN "cyc" ELSE "commit"
              ELSE /\ temp_misc' = [temp_misc EXCEPT !.other = "clobbered"]
                   /\ pc' \in {IF nxt[1] < palcycles THEN "cyc" ELSE "commit", "crashed"}
    /\ UNCHANGED <<inputs, result, s_version, palcycles, colordata, palnames,
                   Misc, namesReset, lastName>>

\* Lines 207-213: the working aggregate is copied back, and the call returns 0.
Commit ==
    /\ pc = "commit"
    /\ Misc' = IF keepdata THEN temp_misc ELSE Misc
    /\ result' = "ok"
    /\ pc' = "done"
    /\ UNCHANGED <<inputs, s_version, palcycles, i, fld, j, reads, colordata,
                   palnames, temp_misc, namesReset, lastCyc, lastName>>

Next ==
    \/ ReadFails
    \/ ReadSubVersion
    \/ ReadReserved
    \/ ReadLength
    \/ ReadBaseColor
    \/ ColorBranch
    \/ ReadExtColor
    \/ SubVersionBranch
    \/ ReadNewestColor
    \/ NameBranch
    \/ ReadPalName
    \/ ZeroNames
    \/ CycleBranch
    \/ ReadPalcycles
    \/ ReadCycleByte
    \/ Commit

Spec == Init /\ [][Next]_vars

(***************************************************************************)
(* Properties.  Count(kind) is the number of successful reads of a kind;   *)
(* PosOf(kind) is the stream position (from 0) of the first one.           *)
(***************************************************************************)
Count(kind) == Cardinality({k \in 1 .. Len(reads) : reads[k] = kind})

PosOf(kind) == (CHOOSE k \in 1 .. Len(reads) :
                   reads[k] = kind /\ \A m \in 1 .. k - 1 : reads[m] # kind) - 1

Failed == pc = "done" /\ result = "qe_invalid"

Succeeded == pc = "done" /\ result = "ok"

CallerTablesUntouched ==
    /\ colordata = PriorColordata(dirty)
    /\ palnames = PriorPalnames(dirty)
    /\ Misc = PriorMisc(dirty)

\* A cell that holds a value of the stream or zero, and nothing older.
Fresh(x) == x \in 0 .. 254

FreshColordata == \A k \in 0 .. newerpdTOTAL - 1 : Fresh(colordata[k])

FreshPalnames == \A k \in 0 .. MAXLEVELS - 1 : Fresh(palnames[k])

FreshCycles ==
    \A r \in 0 .. CycleRows - 1 : \A s \in 0 .. CycleSlots - 1 :
        /\ Fresh(Misc.cycles[r][s].first)
        /\ Fresh(Misc.cycles[r][s].count)
        /\ Fresh(Misc.cycles[r][s].speed)

\* C1: a call that returns qe_invalid leaves colordata, palnames and *Misc
\* as they were before the call (no partial commit).
C1_NoPartialCommit == Failed => CallerTablesUntouched

\* C2: with keepdata false, colordata, palnames and *Misc are unchanged in
\* every state of the call, failed or successful, and init_palnames is not
\* called.
C2_KeepdataFalseFrame == (~keepdata) => (CallerTablesUntouched /\ ~namesReset)

C2_Witness ==
    /\ ~keepdata
    /\ dirty
    /\ Succeeded
    /\ version > VersionThreshold
    /\ s_version < NamesSubVersion
    /\ palcycles = 2

\* C3 (as claimed): for version <= 0x192 and every build, a decode reads no
\* header field and no cycle data, reads no name record and always resets the
\* names through init_palnames.
C3_Original ==
    (version <= VersionThreshold) =>
        /\ Count("sver") + Count("reserved") + Count("len") = 0
        /\ Count("palcycles") + Count("cyc") = 0
        /\ Count("name") = 0
        /\ (Succeeded => namesReset)

\* C3 (amended): for version <= 0x192 a decode reads no header field and no
\* cycle data; when version < 0x192 or build < 76 it reads no name record and
\* a decode that gets past the color records resets the names through
\* init_palnames exactly when keepdata is set; at version 0x192 with
\* build >= 76 it never resets them and a successful decode has read
\* OLDMAXLEVELS names from the stream.
C3_Amended ==
    (version <= VersionThreshold) =>
        /\ Count("sver") + Count("reserved") + Count("len") = 0
        /\ Count("palcycles") + Count("cyc") = 0
        /\ (version < VersionThreshold \/ build < NamesBuild) =>
              /\ Count("name") = 0
              /\ Succeeded => (namesReset <=> keepdata)
        /\ (version = VersionThreshold /\ build >= NamesBuild) =>
              /\ ~namesReset
              /\ Succeeded => Count("name") = OLDMAXLEVELS

C3_Witness ==
    /\ version = VersionThreshold
    /\ build = NamesBuild
    /\ keepdata
    /\ Succeeded

\* C4: for version > 0x192 the first three reads are the sub-version, the
\* reserved word and the section length, in this order and before every
\* color record (and every other read); a call that fails in one of the three
\* returns qe_invalid with no record copied into colordata, and no call
\* succeeds without them.
C4_HeaderFirst ==
    (version > VersionThreshold) =>
        /\ \A k \in 1 .. Len(reads) :
              /\ (k = 1) => reads[k] = "sver"
              /\ (k = 2) => reads[k] = "reserved"
              /\ (k = 3) => reads[k] = "len"
              /\ (k > 3) => reads[k] \notin {"sver", "reserved", "len"}
        /\ (pc = "done" /\ Len(reads) < 3) =>
              (result = "qe_invalid" /\ colordata = PriorColordata(dirty))

C4_Witness ==
    /\ version > VersionThreshold
    /\ keepdata
    /\ dirty
    /\ Failed
    /\ Len(reads) = 2

\* C5 (as claimed): after a successful decode with keepdata set, every color
\* record, every palette name and every cycle entry holds a value read from
\* the stream or zero, for every version.
C5_Original ==
    (Succeeded /\ keepdata) => (FreshColordata /\ FreshPalnames /\ FreshCycles)

\* C5 (amended): after a successful decode with keepdata set, every color
\* record and every palette name holds a value read from the stream or zero;
\* so does every cycle entry when version > 0x192, while for version <= 0x192
\* *Misc, the cycle table included, is exactly what the caller passed in.
C5_Amended ==
    (Succeeded /\ keepdata) =>
        /\ FreshColordata
        /\ FreshPalnames
        /\ (version > VersionThreshold) => FreshCycles
        /\ (version <= VersionThreshold) => Misc = PriorMisc(dirty)

C5_Witness ==
    /\ Succeeded
    /\ keepdata
    /\ dirty
    /\ version = VersionThreshold
    /\ build = SpriteBuild

\* The legacy color layout: version < 0x192, or version 0x192 and build < 73.
\* Such a stream has no header, so color record r is the read at position r.
LegacyDecode ==
    /\ Succeeded
    /\ keepdata
    /\ (version < VersionThreshold \/ (version = VersionThreshold /\ build < SpriteBuild))

\* The table after the three one-slot copies in descending order, behind a
\* block moved to record offset `at`.
ShiftedBlockAt(at) ==
    /\ \A k \in (0 .. 7) \cup (12 .. SpriteRecs - 1) :
          colordata[at + k] = StreamVal(oldpoSPRITE + k)
    /\ colordata[at + 8] = 0
    /\ \A k \in 9 .. 11 : colordata[at + k] = StreamVal(oldpoSPRITE + k - 1)

\* C6 (as claimed): a successful legacy decode with keepdata reads exactly
\* oldpdTOTAL records and moves the 30-record block read at oldpoSPRITE to
\* newpoSPRITE, with slots +8..+11 shifted up by one and slot +8 zeroed.
C6_Original ==
    LegacyDecode => (Count("color") = oldpdTOTAL /\ ShiftedBlockAt(newpoSPRITE))

\* C6 (amended): a successful legacy decode with keepdata reads exactly
\* oldpdTOTAL records and moves the 30-record block read at oldpoSPRITE to
\* newerpoSPRITE; the records below oldpoSPRITE stay as read, every record
\* from oldpoSPRITE up to newerpoSPRITE is zero, and inside the moved block
\* slots +10, +9, +8 are copied up by one in that order and slot +8 is
\* zeroed.
C6_Amended ==
    LegacyDecode =>
        /\ Count("color") = oldpdTOTAL
        /\ Len(reads) = oldpdTOTAL
        /\ \A k \in 0 .. oldpoSPRITE - 1 : colordata[k] = StreamVal(k)
        /\ \A k \in oldpoSPRITE .. newerpoSPRITE - 1 : colordata[k] = 0
        /\ ShiftedBlockAt(newerpoSPRITE)

C6_Witness == LegacyDecode /\ dirty /\ version = VersionThreshold

NamesStored ==
    version > VersionThreshold \/ (version = VersionThreshold /\ build >= NamesBuild)

NamesExpected == IF s_version < 3 THEN OLDMAXLEVELS ELSE NewLevels

\* C8: when names are stored, the decode reads OLDMAXLEVELS names if the
\* sub-version is below 3 and 512 otherwise, in index order; after a
\* successful decode with keepdata, palnames[k] is the k-th name read below
\* the read count and zero from there up to MAXLEVELS-1, and no index
\* >= MAXLEVELS is written.
C8_Names ==
    NamesStored =>
        /\ lastName < MAXLEVELS
        /\ Count("name") <= NamesExpected
        /\ (pc = "names" /\ keepdata) =>
              /\ i = Count("name")
              /\ lastName = i - 1
              /\ \A k \in 0 .. i - 1 : palnames[k] = StreamVal(PosOf("name") + k)
        /\ Succeeded => Count("name") = NamesExpected
        /\ (Succeeded /\ keepdata) =>
              /\ \A k \in 0 .. NamesExpected - 1 :
                    palnames[k] = StreamVal(PosOf("name") + k)
              /\ \A k \in NamesExpected .. MAXLEVELS - 1 : palnames[k] = 0

C8_Witness ==
    /\ Succeeded
    /\ keepdata
    /\ dirty
    /\ version > VersionThreshold
    /\ s_version = 2

\* C9: for version > 0x192, after a successful decode with keepdata of a
\* stream that declares n <= 256 cycle rows, row r < n holds, slot by slot,
\* the three first bytes, then the three count bytes, then the three speed
\* bytes read for it, and every row from n on is zero in all its fields,
\* whatever *Misc held before.
C9_Cycles ==
    (Succeeded /\ keepdata /\ version > VersionThreshold /\ palcycles <= CycleRows) =>
        \A r \in 0 .. CycleRows - 1 : \A s \in 0 .. CycleSlots - 1 :
            LET base == PosOf("palcycles") + 1 + 9 * r
            IN  IF r < palcycles
                THEN /\ Misc.cycles[r][s].first = StreamVal(base + s)
                     /\ Misc.cycles[r][s].count = StreamVal(base + 3 + s)
                     /\ Misc.cycles[r][s].speed = StreamVal(base + 6 + s)
                ELSE Misc.cycles[r][s] = CycleEntry(0, 0, 0)

C9_Witness ==
    /\ Succeeded
    /\ keepdata
    /\ dirty
    /\ version > VersionThreshold
    /\ palcycles = 2

\* C10: the cycle row written by the cycle-reading loop is always below the
\* 256 rows of the working table, whatever count the stream declares.
C10_CycleIndexInBounds == lastCyc < CycleRows

====
